---- MODULE Spec2Model ----
(***************************************************************************)
(* couchapp/generator.py: template resolution over an ordered search path, *)
(* the merge copy onto an existing tree, and the scaffold operations       *)
(* init_basic, init_template, generate and generate_function.              *)
(*                                                                         *)
(* A path is the sequence of its components (<<"app", "views">> is         *)
(* app/views, <<>> is the working directory, which is also the root of     *)
(* the modelled tree).  A template identifier such as "vuejs/myvue" is the *)
(* sequence of its "/"-separated components.  The filesystem is a function *)
(* from the existing paths to nodes.  The interpreter is Python 2, the     *)
(* language the module is written in (save_id writes a str to a file       *)
(* opened 'wb').                                                           *)
(***************************************************************************)
EXTENDS Integers, Sequences, FiniteSets, TLC

VARIABLES
    fs,         \* the filesystem: path -> node
    platform,   \* os.name / sys.platform / py2exe, fixed for a run
    result,     \* the outcome of the last call into the module
    made,       \* history: <<path, name>> of every view generated into an app
    nops        \* number of calls made so far

vars == <<fs, platform, result, made, nops>>

----------------------------------------------------------------------------
(* Filesystem primitives (os, os.path, shutil) as the module uses them.    *)

DirNode == [dir |-> TRUE, data |-> ""]
FileNode(d) == [dir |-> FALSE, data |-> d]

\* Python's None where a path or a template identifier is expected.
None == <<"<None>">>
\* Python's None where a name (a str) is expected.
NoName == "<None>"

exists(f, p) == p \in DOMAIN f
isdir(f, p) == p \in DOMAIN f /\ f[p].dir
isfile(f, p) == p \in DOMAIN f /\ ~f[p].dir

IsPrefix(p, q) == Len(p) <= Len(q) /\ SubSeq(q, 1, Len(p)) = p
Parent(p) == SubSeq(p, 1, Len(p) - 1)
basename(p) == IF Len(p) = 0 THEN "" ELSE p[Len(p)]

\* os.listdir: the names of the direct entries of directory p.
listdir(f, p) ==
    {q[Len(p) + 1] : q \in {x \in DOMAIN f : Len(x) = Len(p) + 1 /\ IsPrefix(p, x)}}

\* os.path.join on components: an empty component adds nothing but a
\* trailing separator.
RECURSIVE join(_)
join(parts) ==
    IF parts = <<>> THEN <<>>
    ELSE LET h == Head(parts)
             t == join(Tail(parts))
         IN  IF h = "" THEN t ELSE <<h>> \o t

\* os.path.normpath: "." and empty components vanish, ".." removes the
\* component before it.
RECURSIVE normstep(_, _)
normstep(done, rest) ==
    IF rest = <<>> THEN done
    ELSE LET c == Head(rest)
         IN  IF c = "." \/ c = "" THEN normstep(done, Tail(rest))
             ELSE IF c = ".." /\ Len(done) > 0 /\ done[Len(done)] # ".."
                  THEN normstep(Parent(done), Tail(rest))
                  ELSE normstep(Append(done, c), Tail(rest))
normpath(p) == normstep(<<>>, p)

\* Some proper ancestor of p is a regular file.
FileAbove(f, p) == \E k \in 0..(Len(p) - 1) : isfile(f, SubSeq(p, 1, k))

\* os.makedirs(p): creates p and every missing ancestor; raises when p exists
\* or an ancestor is a file, creating nothing then.
makedirs(f, p) ==
    IF exists(f, p) \/ FileAbove(f, p)
    THEN [fs |-> f, err |-> "OSError"]
    ELSE [fs |-> [q \in {SubSeq(p, 1, k) : k \in 1..Len(p)} \ DOMAIN f |-> DirNode] @@ f,
          err |-> "OK"]

\* A slip: a copytree that merges into an existing directory.
copytree_merge(f, src, dst) ==
    LET sub == {q \in DOMAIN f : IsPrefix(src, q)}
        new == [d \in {dst \o SubSeq(q, Len(src) + 1, Len(q)) : q \in sub} |->
                   f[src \o SubSeq(d, Len(dst) + 1, Len(d))]]
    IN  [fs |-> new @@ f, err |-> "OK"]

\* shutil.copytree(src, dst): dst must not exist; the whole subtree of src
\* is reproduced under dst.
copytree(f, src, dst) ==
    IF exists(f, dst) \/ FileAbove(f, dst)
    THEN [fs |-> f, err |-> "COLLISION"]
    ELSE LET sub == {q \in DOMAIN f : IsPrefix(src, q)}
             new == [d \in {dst \o SubSeq(q, Len(src) + 1, Len(q)) : q \in sub} |->
                        f[src \o SubSeq(d, Len(dst) + 1, Len(d))]]
         IN  [fs |-> new @@ makedirs(f, dst).fs, err |-> "OK"]

\* shutil.copy2(src, dst): when dst is a directory the file goes into it
\* under its own name; an existing file is overwritten; a directory in the
\* way of the file is an error.
copy2(f, src, dst) ==
    LET to == IF isdir(f, dst) THEN Append(dst, basename(src)) ELSE dst
    IN  IF ~isfile(f, src) \/ isdir(f, to) \/ ~isdir(f, Parent(to)) \/ to = src
        THEN [fs |-> f, err |-> "IOError"]
        ELSE [fs |-> (to :> f[src]) @@ f, err |-> "OK"]

----------------------------------------------------------------------------
(* Collaborators outside generator.py: couchapp.util and couchapp.localdoc. *)

\* util.setup_dir(path, require_empty): an existing directory is accepted
\* (when require_empty, only if it has no entry); a file in the way is an
\* error; an absent path is created.
setup_dir(f, path, require_empty) ==
    IF isdir(f, path)
    THEN IF require_empty /\ listdir(f, path) # {}
         THEN [fs |-> f, err |-> "OCCUPIED_DIRECTORY"]
         ELSE [fs |-> f, err |-> "OK"]
    ELSE IF exists(f, path) \/ FileAbove(f, path)
         THEN [fs |-> f, err |-> "FILE_EXISTS"]
         ELSE makedirs(f, path)

\* util.setup_dirs(paths, require_empty): setup_dir on each path in order,
\* stopping at the first failure.
RECURSIVE setup_dirs(_, _, _)
setup_dirs(f, paths, require_empty) ==
    IF paths = <<>> THEN [fs |-> f, err |-> "OK"]
    ELSE LET r == setup_dir(f, Head(paths), require_empty)
         IN  IF r.err # "OK" THEN r ELSE setup_dirs(r.fs, Tail(paths), require_empty)

is_windows(plat) == plat \in {"windows", "py2exe"}
is_py2exe(plat) == plat = "py2exe"
os_name(plat) == IF is_windows(plat) THEN "nt" ELSE "posix"

\* util.user_path(): the user-level configuration directories, in order.
user_path(plat) ==
    IF is_windows(plat)
    THEN << <<"profile", ".couchapp">>, <<"home", ".couchapp">> >>
    ELSE << <<"home", ".couchapp">> >>

\* localdoc.document(path, create=True): the manifest document writes the
\* app configuration (.couchapprc, .couchappignore) unless it is there.
localdoc_document(f, path) ==
    LET rc == Append(path, ".couchapprc")
        ign == Append(path, ".couchappignore")
    IN  IF isfile(f, rc) THEN [fs |-> f, err |-> "OK"]
        ELSE IF ~isdir(f, path) \/ isdir(f, rc) \/ isdir(f, ign)
             THEN [fs |-> f, err |-> "IOError"]
             ELSE [fs |-> (rc :> FileNode("{}")) @@ (ign :> FileNode("ignore")) @@ f,
                   err |-> "OK"]

----------------------------------------------------------------------------
(* generator.py                                                            *)

\* A slip: the tree as the docstring of init_basic lists it, without filters.
DOCSTRING_TREE == <<"_attachments", "lists", "shows", "updates", "views">>

DEFAULT_APP_TREE == <<"_attachments", "filters", "lists", "shows", "updates", "views">>
TEMPLATE_TYPES == {"app", "functions", "vendor"}
func_list == {"view", "list", "show", "filter", "function", "vendor", "update", "spatial"}

Range(s) == {s[i] : i \in DOMAIN s}
AppTreePaths(path) == [i \in DOMAIN DEFAULT_APP_TREE |-> Append(path, DEFAULT_APP_TREE[i])]

\* dirname(__file__), dirname(sys.executable), sys.prefix
modpath == <<"lib", "couchapp">>
exedir == <<"dist">>
sys_prefix == <<"python">>

\* The candidate roots of find_template_dir, in precedence order.
search_paths(plat) ==
    user_path(plat)
    \o << modpath, modpath \o <<"..">> >>
    \o (IF os_name(plat) = "posix"
        THEN << <<"usr", "share", "couchapp">>,
                <<"usr", "local", "share", "couchapp">>,
                <<"opt", "couchapp">> >>
        ELSE IF is_py2exe(plat) THEN << exedir >>
        ELSE IF is_windows(plat)
             THEN << sys_prefix \o <<"Lib", "site-packages", "couchapp">> >>
             ELSE << >>)
    \o (IF plat = "darwin"
        THEN << <<"home", "Library", "Application Support", "Couchapp">> >>
        ELSE << >>)

\* The probe path of one root.
probe(root, tmpl_name, tmpl_type) ==
    join(normpath(root) \o <<"templates">> \o tmpl_name \o <<tmpl_type>>)

\* A slip: the loop keeps looking after a match, so the last match wins.
RECURSIVE last_match(_, _, _, _)
last_match(f, roots, tmpl_name, tmpl_type) ==
    IF roots = <<>> THEN None
    ELSE LET path == probe(Head(roots), tmpl_name, tmpl_type)
             later == last_match(f, Tail(roots), tmpl_name, tmpl_type)
         IN  IF later # None THEN later
             ELSE IF isdir(f, path) THEN path ELSE None

\* The "first win" loop of find_template_dir.
RECURSIVE first_match(_, _, _, _)
first_match(f, roots, tmpl_name, tmpl_type) ==
    IF roots = <<>> THEN None
    ELSE LET path == probe(Head(roots), tmpl_name, tmpl_type)
         IN  IF isdir(f, path) THEN path
             ELSE first_match(f, Tail(roots), tmpl_name, tmpl_type)

find_template_dir(f, plat, tmpl_name, tmpl_type, raise_error) ==
    IF tmpl_type # "" /\ tmpl_type \notin TEMPLATE_TYPES
    THEN [err |-> "INVALID_TYPE", path |-> None]
    ELSE LET name == IF tmpl_name = <<"default">> THEN <<>> ELSE tmpl_name
             hit == first_match(f, search_paths(plat), name, tmpl_type)
         IN  IF hit = None /\ raise_error
             THEN [err |-> "TEMPLATE_NOT_FOUND", path |-> None]
             ELSE [err |-> "OK", path |-> hit]

\* One iteration of copy_helper's loop.
copy_entry(f, src, dest, p) ==
    IF isdir(f, Append(src, p))
    THEN copytree(f, Append(src, p), Append(dest, p))
    ELSE copy2(f, Append(src, p), Append(dest, p))

RECURSIVE copy_loop(_, _, _, _)
copy_loop(f, src, dest, order) ==
    IF order = <<>> THEN [fs |-> f, err |-> "OK"]
    ELSE LET r == copy_entry(f, src, dest, Head(order))
         IN  IF r.err # "OK" THEN r ELSE copy_loop(r.fs, src, dest, Tail(order))

\* A set as a sequence, in some fixed order.
RECURSIVE SeqOf(_)
SeqOf(S) == IF S = {} THEN <<>> ELSE LET x == CHOOSE y \in S : TRUE IN <<x>> \o SeqOf(S \ {x})

\* copy_helper(src, dest): the set of its possible outcomes.  os.listdir
\* returns the entries in any order and a failing entry ends the loop, so an
\* outcome is the loop run over some of the entries that copy and then one
\* entry that fails, or over all the entries when none fails.  (Entries do
\* not interfere with one another as long as neither of src and dest lies
\* inside the other.)
copy_helper(f, src, dest) ==
    IF src = None THEN {[fs |-> f, err |-> "TypeError"]}
    ELSE IF ~isdir(f, src) THEN {[fs |-> f, err |-> "NOT_A_DIRECTORY"]}
    ELSE LET d == setup_dir(f, dest, FALSE)
             entries == listdir(d.fs, src)
             failing == {p \in entries : copy_entry(d.fs, src, dest, p).err # "OK"}
         IN  IF d.err # "OK" THEN {d}
             ELSE IF failing = {} THEN {copy_loop(d.fs, src, dest, SeqOf(entries))}
             ELSE {copy_loop(d.fs, src, dest, SeqOf(S) \o <<x>>)
                   : S \in SUBSET (entries \ failing), x \in failing}

\* save_id(app_path, name): writes name to app_path/_id, overwriting it.
save_id(f, app_path, name) ==
    LET p == Append(app_path, "_id")
    IN  IF isdir(f, p) \/ ~isdir(f, app_path)
        THEN [fs |-> f, err |-> "IOError"]
        ELSE [fs |-> (p :> FileNode(name)) @@ f, err |-> "OK"]

\* The two closing statements of init_basic and init_template.
save_and_document(f, path) ==
    LET s == save_id(f, path, "_design/" \o basename(path))
    IN  IF s.err # "OK" THEN s ELSE localdoc_document(s.fs, path)

init_basic(f, path) ==
    LET a == setup_dir(f, path, TRUE)
        b == setup_dirs(a.fs, AppTreePaths(path), TRUE)
    IN  IF a.err # "OK" THEN a
        ELSE IF b.err # "OK" THEN b
        ELSE save_and_document(b.fs, path)

\* An outcome of a call: the filesystem it leaves, the error it raised or
\* "OK", and what it resolved and logged on the way.
Out(f, e) ==
    [fs |-> f, err |-> e, ret |-> None, warnings |-> <<>>, attempts |-> <<>>,
     tdir |-> None, app_src |-> None, vendor_src |-> None]

truthy(template) == template # None /\ template # <<>>

\* A slip: the vendor payload always taken from the default set.
vendor_source_default(g, plat, tmpl_name) ==
    find_template_dir(g, plat, <<"default">>, "vendor", FALSE).path

\* The vendor directory init_template copies: the set's own, else the
\* default set's.
vendor_source(g, plat, tmpl_name) ==
    LET v == find_template_dir(g, plat, tmpl_name, "vendor", FALSE)
    IN  IF v.path = None
        THEN find_template_dir(g, plat, <<"default">>, "vendor", FALSE).path
        ELSE v.path

\* init_template from the vendor lookup on: g is the tree after the app
\* payload and the standard tree.
init_vendor(g, plat, path, tmpl_name, app_src) ==
    LET src_dir == vendor_source(g, plat, tmpl_name)
    IN  {[Out(IF e.err # "OK" THEN e.fs ELSE save_and_document(e.fs, path).fs,
              IF e.err # "OK" THEN e.err ELSE save_and_document(e.fs, path).err)
            EXCEPT !.app_src = app_src, !.vendor_src = src_dir]
         : e \in copy_helper(g, src_dir, Append(path, "vendor"))}

init_template(f, plat, path, template) ==
    IF \E t \in TEMPLATE_TYPES : template = <<t>>
    THEN {Out(f, "AMBIGUOUS_TEMPLATE_NAME")}
    ELSE LET tmpl_name == IF truthy(template) THEN normpath(template) ELSE <<>>
             a == find_template_dir(f, plat, tmpl_name, "app", TRUE)
         IN  IF a.err # "OK" THEN {Out(f, a.err)}
             ELSE UNION {
                    IF c.err # "OK" THEN {[Out(c.fs, c.err) EXCEPT !.app_src = a.path]}
                    ELSE LET d == setup_dirs(c.fs, AppTreePaths(path), FALSE)
                         IN  IF d.err # "OK"
                             THEN {[Out(d.fs, d.err) EXCEPT !.app_src = a.path]}
                             ELSE init_vendor(d.fs, plat, path, tmpl_name, a.path)
                    : c \in copy_helper(f, a.path, path)}

\* shutil.copy2 as generate_function calls it: the module imports copy2 and
\* copytree from shutil but never binds the name shutil, so the call raises
\* NameError before anything is copied.
shutil_copy2(f, src, dst) == [fs |-> f, err |-> "NameError"]

\* The loop over the (template, target) pairs of generate_function: a failed
\* copy is logged and the loop goes on.
RECURSIVE copy_functions(_, _, _, _, _)
copy_functions(o, path, template_dir, functions_path, functions) ==
    IF functions = <<>> THEN o
    ELSE LET template == Head(functions)[1]
             target == Head(functions)[2]
             target_path == join(path \o <<target>>)
             root_path == template_dir \o functions_path \o <<template>>
             root == join(root_path)
             r == shutil_copy2(o.fs, root, target_path)
             try == [src |-> root, dst |-> target_path, err |-> r.err]
             o2 == [o EXCEPT !.fs = r.fs,
                             !.attempts = Append(@, try),
                             !.warnings = IF r.err = "OK" THEN @
                                          ELSE Append(@, <<template, join(Parent(root_path))>>)]
         IN  copy_functions(o2, path, template_dir, functions_path, Tail(functions))

\* The vendor branch of generate_function.
function_vendor(f, path, name, template, template_dir) ==
    LET app_dir == join(path \o <<"vendor", name>>)
        g == makedirs(f, app_dir).fs
    IN  IF template = None THEN {[Out(g, "AttributeError") EXCEPT !.tdir = template_dir]}
        ELSE IF join(template) = <<>>
        THEN {[Out(g, IF isdir(g, path) THEN "OSError" ELSE "NOT_A_DIRECTORY")
                 EXCEPT !.tdir = template_dir]}
        ELSE {[Out(c.fs, c.err) EXCEPT !.tdir = template_dir]
              : c \in copy_helper(g, path, join(template))}

\* A slip: the test made with os.path.isfile.
view_isfile(f, views, name) == isfile(f, views)

\* os.path.exists on the view's directory; an empty name leaves a trailing
\* separator, which only a directory satisfies.
view_exists(f, views, name) ==
    IF name = "" THEN isdir(f, views) ELSE exists(f, views)

\* generate_function(path, kind, name, template) with name a str.
generate_function(f, plat, path, kind, name, template) ==
    LET functions_path == IF truthy(template) THEN <<>> ELSE <<"functions">>
        template_dir == IF truthy(template)
                        THEN find_template_dir(f, plat, join(template), "", FALSE).path
                        ELSE find_template_dir(f, plat, <<"default">>, "", FALSE).path
        start(g) == [Out(g, "OK") EXCEPT !.tdir = template_dir]
        place(dir, functions) ==
            {copy_functions(start(makedirs(f, dir).fs), dir, template_dir,
                            functions_path, functions)}
    IN  IF template_dir = None THEN {Out(f, "TEMPLATE_NOT_FOUND")}
        ELSE IF kind = "view"
        THEN LET views == join(path \o <<kind \o "s", name>>)
             IN  IF view_exists(f, views, name) THEN {[Out(f, "ARTIFACT_EXISTS") EXCEPT !.tdir = template_dir]}
                 ELSE place(views, << <<"map.js", "map.js">>, <<"reduce.js", "reduce.js">> >>)
        ELSE IF kind = "function"
        THEN place(path, << <<name \o ".js", name \o ".js">> >>)
        ELSE IF kind = "vendor"
        THEN function_vendor(f, path, name, template, template_dir)
        ELSE IF kind = "spatial"
        THEN place(Append(path, "spatial"), << <<"spatial.js", name \o ".js">> >>)
        ELSE place(Append(path, kind \o "s"), << <<kind \o ".js", name \o ".js">> >>)

\* generate(path, kind, name, template=...): generate_vendor is defined
\* nowhere in the module, so the vendor dispatch raises NameError.
generate(f, plat, path, kind, name, template) ==
    IF kind \notin func_list THEN {Out(f, "UNKNOWN_KIND")}
    ELSE IF name = NoName THEN {Out(f, "MISSING_NAME")}
    ELSE IF kind = "vendor" THEN {Out(f, "NameError")}
    ELSE generate_function(f, plat, path, kind, name, template)

----------------------------------------------------------------------------
(* The environment: which template sets are installed under which roots.   *)

\* At most MaxOps calls are made in a run.
MaxOps == 2

Ancestors(p) == {SubSeq(p, 1, k) : k \in 0..Len(p)}
Dirs(ps) == [p \in UNION {Ancestors(q) : q \in ps} |-> DirNode]
Files(base, names, tag) ==
    [p \in {Append(base, n) : n \in names} |-> FileNode(basename(p) \o "@" \o tag)]

Skeletons ==
    {"map.js", "reduce.js", "list.js", "show.js", "filter.js", "update.js",
     "spatial.js", "byDate.js"}

AppPayload(base, tag) ==
    Dirs({Append(base, "_attachments")})
    @@ Files(base, {"language"}, tag)
    @@ Files(Append(base, "_attachments"), {"index.html"}, tag)

VendorPayload(base, tag) ==
    Dirs({Append(base, "couchapp")})
    @@ Files(base, {"README"}, tag)
    @@ Files(Append(base, "couchapp"), {"jquery.js"}, tag)

\* What one root holds under <root>/templates, by kind of installation:
\* nothing; part of the default set (two skeletons and the vendor payload);
\* the whole default set; a custom set "mytmpl" with skeletons of its own
\* and no vendor payload; the custom set with a vendor payload.
Layouts == {"none", "partial", "full", "custom", "customv"}

Installed(root, layout) ==
    LET t == Append(root, "templates")
        m == t \o <<"mytmpl">>
        tag == root[1] \o "/" \o root[Len(root)]
        mtag == tag \o "/mytmpl"
    IN  IF layout = "none" THEN Dirs({root})
        ELSE IF layout = "partial"
        THEN Dirs({Append(t, "functions")})
             @@ Files(Append(t, "functions"), {"map.js", "list.js"}, tag)
             @@ VendorPayload(Append(t, "vendor"), tag)
        ELSE IF layout = "full"
        THEN AppPayload(Append(t, "app"), tag)
             @@ Dirs({Append(t, "functions")})
             @@ Files(Append(t, "functions"), Skeletons, tag)
             @@ VendorPayload(Append(t, "vendor"), tag)
        ELSE IF layout = "custom"
        THEN AppPayload(Append(m, "app"), mtag)
             @@ Files(m, {"map.js", "reduce.js", "show.js"}, mtag)
        ELSE AppPayload(Append(m, "app"), mtag)
             @@ Dirs({Append(m, "vendor")})
             @@ Files(Append(m, "vendor"), {"extra.js"}, mtag)

RECURSIVE Merge(_)
Merge(S) == IF S = {} THEN << >> ELSE LET x == CHOOSE y \in S : TRUE IN x @@ Merge(S \ {x})

\* The roots that may hold templates in the initial states.
HomeRoot == <<"home", ".couchapp">>
ShareRoot == <<"usr", "share", "couchapp">>
MacRoot == <<"home", "Library", "Application Support", "Couchapp">>
WorkDir == <<"work">>

\* A third-party package on disk, the source of a vendor generation.
Package == <<"pkg">>
PackageTree ==
    Dirs({Append(Package, "plugins")})
    @@ Files(Package, {"jquery.js"}, "pkg")
    @@ Files(Append(Package, "plugins"), {"ui.js"}, "pkg")

InitialTree(lay) ==
    Merge({Installed(r, lay[r]) : r \in DOMAIN lay}) @@ Dirs({WorkDir}) @@ PackageTree

----------------------------------------------------------------------------
(* The calls.                                                              *)

Platforms == {"posix", "darwin", "windows", "py2exe"}
ResolveRoots == {HomeRoot, ShareRoot, MacRoot}
AppPaths == {WorkDir \o <<"app">>}
Names == {"byDate", ""}
Kinds == func_list \cup {"bogus"}
TmplNames == {<<"default">>, <<>>, <<"mytmpl">>, <<"nosuch">>}
TmplTypes == TEMPLATE_TYPES \cup {"", "bogus"}
InitTemplates == {<<"default">>, <<"mytmpl">>, <<".", "mytmpl">>, <<"vendor">>, <<"nosuch">>}
GenTemplates == {None, <<"mytmpl">>, Package}

Call(op, path, kind, name, template, o) ==
    [op |-> op, path |-> path, kind |-> kind, name |-> name, template |-> template,
     tmpl_type |-> "", raise_error |-> FALSE,
     err |-> o.err, ret |-> o.ret, warnings |-> o.warnings, attempts |-> o.attempts,
     tdir |-> o.tdir, app_src |-> o.app_src, vendor_src |-> o.vendor_src]

\* The scaffold operations, on a POSIX installation: any installation under
\* the user directory, the module directory shipping the whole default set
\* or nothing, and the app directory absent or left by an earlier init_basic.
Init ==
    /\ platform = "posix"
    /\ \E user \in Layouts, shipped \in {"none", "full"}, seeded \in BOOLEAN :
          LET tree == InitialTree((HomeRoot :> user) @@ (modpath :> shipped))
          IN  fs = IF seeded THEN init_basic(tree, WorkDir \o <<"app">>).fs ELSE tree
    /\ result = Call("none", None, "", "", None, Out(<<>>, "OK"))
    /\ made = {}
    /\ nops = 0

FindTemplateDir ==
    /\ nops < MaxOps
    /\ \E tmpl_name \in TmplNames, tmpl_type \in TmplTypes, raise_error \in BOOLEAN :
          LET r == find_template_dir(fs, platform, tmpl_name, tmpl_type, raise_error)
          IN  result' = [Call("find_template_dir", None, "", "", tmpl_name,
                              [Out(fs, r.err) EXCEPT !.ret = r.path])
                           EXCEPT !.tmpl_type = tmpl_type, !.raise_error = raise_error]
    /\ nops' = nops + 1
    /\ UNCHANGED <<fs, platform, made>>

InitBasic ==
    /\ nops < MaxOps
    /\ \E path \in AppPaths :
          LET o == init_basic(fs, path)
          IN  /\ fs' = o.fs
              /\ result' = Call("init_basic", path, "", "", None, Out(o.fs, o.err))
    /\ nops' = nops + 1
    /\ UNCHANGED <<platform, made>>

InitTemplate ==
    /\ nops < MaxOps
    /\ \E path \in AppPaths, template \in InitTemplates :
          \E o \in init_template(fs, platform, path, template) :
              /\ fs' = o.fs
              /\ result' = Call("init_template", path, "", "", template, o)
    /\ nops' = nops + 1
    /\ UNCHANGED <<platform, made>>

\* The app directory invariant: the standard tree and the _id marker.
IsApp(f, path) ==
    /\ \A n \in Range(DEFAULT_APP_TREE) : isdir(f, Append(path, n))
    /\ isfile(f, Append(path, "_id"))

Generate ==
    /\ nops < MaxOps
    /\ \E path \in AppPaths, kind \in Kinds, name \in Names \cup {NoName},
          template \in GenTemplates :
          \E o \in generate(fs, platform, path, kind, name, template) :
              /\ fs' = o.fs
              /\ result' = Call("generate", path, kind, name, template, o)
              /\ made' = IF kind = "view" /\ o.err = "OK" /\ IsApp(fs, path)
                         THEN made \cup {<<path, name>>} ELSE made
    /\ nops' = nops + 1
    /\ UNCHANGED platform

\* generate_function called directly for a vendor package, the branch that
\* generate never reaches.
GenerateFunction ==
    /\ nops < MaxOps
    /\ \E path \in AppPaths, kind \in {"vendor"}, name \in Names, template \in GenTemplates :
          \E o \in generate_function(fs, platform, path, kind, name, template) :
              /\ fs' = o.fs
              /\ result' = Call("generate_function", path, kind, name, template, o)
    /\ nops' = nops + 1
    /\ UNCHANGED <<platform, made>>

\* copy_helper called on a template payload and a destination.
CopySources == {modpath \o <<"templates", t>> : t \in TEMPLATE_TYPES}
CopyDests == {WorkDir \o <<"out">>}

CopyHelper ==
    /\ nops < MaxOps
    /\ \E src \in CopySources, dest \in CopyDests :
          \E o \in copy_helper(fs, src, dest) :
              /\ fs' = o.fs
              /\ result' = Call("copy_helper", dest, "", "", src, Out(o.fs, o.err))
    /\ nops' = nops + 1
    /\ UNCHANGED <<platform, made>>

Next ==
    \/ InitBasic
    \/ InitTemplate
    \/ Generate
    \/ GenerateFunction
    \/ CopyHelper

Spec == Init /\ [][Next]_vars

\* The resolver alone, over every platform and every installation of the
\* template sets under three of the roots.
InitResolve ==
    /\ platform \in Platforms
    /\ \E lay \in [ResolveRoots -> Layouts] : fs = InitialTree(lay)
    /\ result = Call("none", None, "", "", None, Out(<<>>, "OK"))
    /\ made = {}
    /\ nops = 0

NextResolve == FindTemplateDir

SpecResolve == InitResolve /\ [][NextResolve]_vars

----------------------------------------------------------------------------
(* Properties.                                                             *)

StandardTree == {"_attachments", "filters", "lists", "shows", "updates", "views"}
NonVendorKinds == {"view", "list", "show", "filter", "function", "update", "spatial"}

\* The probe path <root>/templates/<tmpl_name>/<tmpl_type> of the resolver's
\* contract, empty components left out and "default" read as the empty name.
ContractProbe(root, tmpl_name, tmpl_type) ==
    normpath(root) \o <<"templates">>
    \o (IF tmpl_name = <<"default">> THEN <<>> ELSE tmpl_name)
    \o (IF tmpl_type = "" THEN <<>> ELSE <<tmpl_type>>)

\* The positions, in the search path, of the roots whose probe path is a
\* directory.
Hits(tmpl_name, tmpl_type) ==
    {i \in DOMAIN search_paths(platform) :
        isdir(fs, ContractProbe(search_paths(platform)[i], tmpl_name, tmpl_type))}

\* The probe path of the first of them.
FirstHit(tmpl_name, tmpl_type) ==
    LET i == CHOOSE k \in Hits(tmpl_name, tmpl_type) :
                 \A j \in Hits(tmpl_name, tmpl_type) : k <= j
    IN  ContractProbe(search_paths(platform)[i], tmpl_name, tmpl_type)

\* C1: find_template_dir returns the probe path of the first root, in
\* precedence order, whose probe path is a directory; with no such root it
\* returns None when raise_error is unset and fails with TEMPLATE-NOT-FOUND
\* when it is set.
C1FirstRootWins ==
    (result.op = "find_template_dir" /\ result.tmpl_type \in TEMPLATE_TYPES \cup {""}) =>
        IF Hits(result.template, result.tmpl_type) # {}
        THEN /\ result.err = "OK"
             /\ result.ret = FirstHit(result.template, result.tmpl_type)
        ELSE IF result.raise_error
             THEN result.err = "TEMPLATE_NOT_FOUND"
             ELSE result.err = "OK" /\ result.ret = None

\* A lookup that two roots satisfy, answered with the first of them.
C1Witness ==
    /\ result.op = "find_template_dir"
    /\ Cardinality(Hits(result.template, result.tmpl_type)) >= 2
    /\ result.ret = FirstHit(result.template, result.tmpl_type)

InitDone == result.op \in {"init_basic", "init_template"} /\ result.err = "OK"

HasTreeAndId(path) ==
    /\ \A n \in StandardTree : isdir(fs, Append(path, n))
    /\ isfile(fs, Append(path, "_id"))
    /\ fs[Append(path, "_id")].data = "_design/" \o path[Len(path)]

\* C2, as stated: after a successful init the app holds the standard tree and
\* _id with content _design/<basename>, and after init_basic its listing is
\* exactly the six subdirectories and _id.
C2AsStated ==
    InitDone =>
        /\ HasTreeAndId(result.path)
        /\ result.op = "init_basic" =>
              listdir(fs, result.path) = StandardTree \cup {"_id"}

\* C2, amended: after a successful init the app holds the standard tree and
\* _id with content _design/<basename>, and after init_basic its listing is
\* exactly the six subdirectories, _id and the two configuration files the
\* manifest document writes, .couchapprc and .couchappignore.
C2TreeAndId ==
    InitDone =>
        /\ HasTreeAndId(result.path)
        /\ result.op = "init_basic" =>
              listdir(fs, result.path) =
                  StandardTree \cup {"_id", ".couchapprc", ".couchappignore"}

\* An init_basic that succeeded.
C2Witness == result.op = "init_basic" /\ result.err = "OK" /\ isdir(fs, result.path)

\* The files of the naming contract for one artifact: where each goes under
\* the app and the skeleton it is copied from.
Contract(kind, name) ==
    IF kind = "view"
    THEN {[dst |-> <<"views", name, "map.js">>, src |-> "map.js"],
          [dst |-> <<"views", name, "reduce.js">>, src |-> "reduce.js"]}
    ELSE IF kind = "function"
    THEN {[dst |-> <<"functions", name \o ".js">>, src |-> name \o ".js"]}
    ELSE IF kind = "spatial"
    THEN {[dst |-> <<"spatial", name \o ".js">>, src |-> "spatial.js"]}
    ELSE {[dst |-> <<kind \o "s", name \o ".js">>, src |-> kind \o ".js"]}

\* A generate call of a non-vendor kind with a non-empty name.
IsGenerate ==
    /\ result.op = "generate"
    /\ result.kind \in NonVendorKinds
    /\ result.name \notin {"", NoName}

\* The directory the skeletons are read from: the functions directory of the
\* resolved default set, or the root of the template set named in the call.
SkeletonDir ==
    IF truthy(result.template) THEN result.tdir ELSE Append(result.tdir, "functions")

Present(c) == isfile(fs, Append(SkeletonDir, c.src))
Copied(c) ==
    /\ isfile(fs, result.path \o c.dst)
    /\ fs[result.path \o c.dst].data = fs[Append(SkeletonDir, c.src)].data

\* C3: a successful generate of a non-vendor kind, with a non-empty name and
\* a resolved template holding all the skeletons of the kind, creates every
\* file of the naming contract with the content of its skeleton.
C3NamingContract ==
    (/\ IsGenerate
     /\ result.err = "OK"
     /\ \A c \in Contract(result.kind, result.name) : Present(c))
    => \A c \in Contract(result.kind, result.name) : Copied(c)

SubDirs(f, dir) == {p \in listdir(f, dir) : isdir(f, Append(dir, p))}

\* Every entry of src is under dest in tree g as it is under src.
Mirrors(g, src, dest) ==
    \A q \in {x \in DOMAIN g : IsPrefix(src, x) /\ x # src} :
        LET d == dest \o SubSeq(q, Len(src) + 1, Len(q))
        IN  d \in DOMAIN g /\ g[d] = g[q]

\* C5: copy_helper on an absent destination succeeds and reproduces the
\* source; called again with the same source and destination right after a
\* success, it succeeds again and leaves the files equal to the source when
\* the source has no direct subdirectory, and fails on the collision when it
\* has one.
C5CopyTwice ==
    [][(nops' = nops + 1 /\ result'.op = "copy_helper") =>
          LET src == result'.template
              dest == result'.path
          IN  /\ (isdir(fs, src) /\ ~exists(fs, dest)) =>
                    result'.err = "OK" /\ Mirrors(fs', src, dest)
              /\ (/\ result.op = "copy_helper"
                  /\ result.err = "OK"
                  /\ result.template = src
                  /\ result.path = dest) =>
                    IF SubDirs(fs, src) = {}
                    THEN result'.err = "OK" /\ Mirrors(fs', src, dest)
                    ELSE result'.err = "COLLISION"]_vars

\* A second copy_helper stopped by the subdirectory the first one made.
C5Witness ==
    /\ result.op = "copy_helper"
    /\ result.err = "COLLISION"
    /\ SubDirs(fs, result.template) # {}
    /\ \A p \in SubDirs(fs, result.template) : isdir(fs, Append(result.path, p))

\* C6: generate of a vendor package, with a non-empty name and a template
\* naming an existing directory, succeeds, leaves path/vendor/<name> a
\* directory and reproduces the template directory in it.
C6VendorCopied ==
    (/\ result.op = "generate"
     /\ result.kind = "vendor"
     /\ result.name \notin {"", NoName}
     /\ result.template # None
     /\ isdir(fs, result.template))
    => /\ result.err = "OK"
       /\ isdir(fs, result.path \o <<"vendor", result.name>>)
       /\ Mirrors(fs, result.template, result.path \o <<"vendor", result.name>>)

\* C7: with the template resolved and some skeleton of the artifact absent,
\* generate does not fail, warns of each absent skeleton with the directory
\* it was expected in, and still copies each skeleton that is there.
C7MissingSkeleton ==
    (/\ IsGenerate
     /\ result.tdir # None
     /\ result.err # "ARTIFACT_EXISTS"
     /\ \E c \in Contract(result.kind, result.name) : ~Present(c))
    => /\ result.err = "OK"
       /\ \A c \in Contract(result.kind, result.name) :
             IF Present(c) THEN Copied(c)
             ELSE <<c.src, SkeletonDir>> \in Range(result.warnings)

\* C7, the part about the absent skeletons alone.
C7Warned ==
    (/\ IsGenerate
     /\ result.tdir # None
     /\ result.err # "ARTIFACT_EXISTS")
    => /\ result.err = "OK"
       /\ \A c \in Contract(result.kind, result.name) :
             ~Present(c) => <<c.src, SkeletonDir>> \in Range(result.warnings)

\* C8: generate fails with UNKNOWN-KIND for a kind outside the fixed set and
\* with MISSING-NAME for a name that is absent or empty.
C8Validation ==
    result.op = "generate" =>
        /\ result.kind \notin func_list => result.err = "UNKNOWN_KIND"
        /\ (result.kind \in func_list /\ result.name \in {"", NoName}) =>
              result.err = "MISSING_NAME"

\* The template set name init_template resolves for a template argument.
SetName(template) == SelectSeq(template, LAMBDA c : c # ".")

\* The vendor directory the contract selects in tree fs: that of the set
\* when a root has it, else that of the default set, else none.
ContractVendor(template) ==
    IF Hits(SetName(template), "vendor") # {} THEN FirstHit(SetName(template), "vendor")
    ELSE IF Hits(<<>>, "vendor") # {} THEN FirstHit(<<>>, "vendor")
    ELSE None

\* C9: a successful init_template copies the vendor payload of exactly one
\* directory, the vendor directory of the template set when the resolver
\* finds one and that of the default set otherwise: the directory is
\* reproduced under path/vendor and nothing else is added there; and the
\* vendor copy, successful or not, finds the app payload and the standard
\* tree in place.
C9VendorSource ==
    [][(nops' = nops + 1 /\ result'.op = "init_template") =>
          LET path == result'.path
              vendor == Append(path, "vendor")
              src == result'.vendor_src
          IN  /\ result'.err = "OK" =>
                    /\ src # None
                    /\ src = ContractVendor(result'.template)
                    /\ Mirrors(fs', src, vendor)
                    /\ \A q \in DOMAIN fs' \ DOMAIN fs :
                          (IsPrefix(vendor, q) /\ q # vendor) =>
                              src \o SubSeq(q, Len(vendor) + 1, Len(q)) \in DOMAIN fs'
              /\ src # None =>
                    /\ \A n \in StandardTree : isdir(fs', Append(path, n))
                    /\ Mirrors(fs', result'.app_src, path)]_vars

\* An init_template of the custom set that took the default set's vendor
\* directory, a vendor directory of the custom set not existing anywhere.
C9Witness ==
    /\ result.op = "init_template"
    /\ result.err = "OK"
    /\ SetName(result.template) = <<"mytmpl">>
    /\ Hits(<<"mytmpl">>, "vendor") = {}
    /\ result.vendor_src = FirstHit(<<>>, "vendor")
    /\ isfile(fs, result.path \o <<"vendor", "README">>)

\* C10: generate of a non-vendor kind without a template reads its skeletons
\* from <root>/templates/functions of the first root, in precedence order,
\* that has this directory.
C10FunctionsDir ==
    (/\ IsGenerate
     /\ result.template = None
     /\ result.err = "OK"
     /\ Hits(<<>>, "functions") # {})
    => /\ result.attempts # <<>>
       /\ \A i \in DOMAIN result.attempts :
             Parent(result.attempts[i].src) = FirstHit(<<>>, "functions")

====
